---- MODULE Spec2Model ----
(***************************************************************************)
(* A model of palmmc/sconfig: the Properties class (a YAML configuration   *)
(* file kept in step with a template) and the Storage class (a key-value   *)
(* store over a JSON file or an SQLite table).                             *)
(*                                                                         *)
(* Text is modelled as what it is: a sequence of characters (one-character *)
(* strings), so that the template literal `${value}`, the line regex of   *)
(* setValue, the split() calls of the constructor and the YAML parse are   *)
(* computed on characters and a round trip through the file can fail.      *)
(* A step of a method that uses an intermediate result several times is    *)
(* written as an operator that takes the result as a parameter.            *)
(***************************************************************************)
EXTENDS Integers, Sequences, FiniteSets, TLC

(***************************************************************************)
(* Strings (JavaScript String operations used by the source)               *)
(***************************************************************************)

NL == "\n"

\* String.prototype.startsWith
StartsWith(s, p) ==
  /\ Len(s) >= Len(p)
  /\ SubSeq(s, 1, Len(p)) = p

\* String.prototype.indexOf, counted from 1: 0 when p does not occur in s
IndexOf(s, p) ==
  LET hits == {i \in 1..(Len(s) - Len(p) + 1) : SubSeq(s, i, i + Len(p) - 1) = p}
  IN IF hits = {} THEN 0 ELSE CHOOSE i \in hits : \A j \in hits : i <= j

\* String.prototype.split(sep), sep a non-empty string
RECURSIVE Split(_, _), SplitAt(_, _, _)
SplitAt(s, sep, i) ==
  IF i = 0 THEN <<s>>
  ELSE <<SubSeq(s, 1, i - 1)>> \o Split(SubSeq(s, i + Len(sep), Len(s)), sep)

Split(s, sep) == SplitAt(s, sep, IndexOf(s, sep))

\* Array.prototype.join("\n")
RECURSIVE JoinLines(_)
JoinLines(ls) ==
  IF Len(ls) = 0 THEN <<>>
  ELSE IF Len(ls) = 1 THEN ls[1]
  ELSE ls[1] \o <<NL>> \o JoinLines(Tail(ls))

\* leading and trailing spaces removed
RECURSIVE TrimLeft(_)
TrimLeft(s) == IF Len(s) > 0 /\ s[1] = " " THEN TrimLeft(Tail(s)) ELSE s

RECURSIVE TrimRight(_)
TrimRight(s) ==
  IF Len(s) > 0 /\ s[Len(s)] = " " THEN TrimRight(SubSeq(s, 1, Len(s) - 1)) ELSE s

Trim(s) == TrimRight(TrimLeft(s))

(***************************************************************************)
(* JavaScript values of a configuration: a type tag and the text that      *)
(* `${value}` prints for it.                                               *)
(***************************************************************************)

Bool(s) == [t |-> "bool", s |-> s]
Num(s) == [t |-> "num", s |-> s]
Str(s) == [t |-> "str", s |-> s]
Null == [t |-> "null", s |-> <<"n", "u", "l", "l">>]
Undefined == [t |-> "undefined", s |-> <<"u", "n", "d", "e", "f", "i", "n", "e", "d">>]

cTrue == <<"t", "r", "u", "e">>
cFalse == <<"f", "a", "l", "s", "e">>
Digits == {"0", "1", "2", "3", "4", "5", "6", "7", "8", "9"}

\* the template literal `${value}` (String(value))
ToStr(v) == v.s

(***************************************************************************)
(* parse() of the "yaml" package, on the line-oriented documents of the    *)
(* configuration format: "key: value" lines, "#" comment lines, blank      *)
(* lines. A result is an error (parse throws), null (an empty document),   *)
(* a scalar (a document that is one plain scalar) or a map (an ordered     *)
(* list of entries, as the keys of a JavaScript object are ordered).       *)
(***************************************************************************)

PErr == [kind |-> "error", entries |-> <<>>]
PNull == [kind |-> "null", entries |-> <<>>]
PScalar == [kind |-> "scalar", entries |-> <<>>]
PMap(es) == [kind |-> "map", entries |-> es]

\* the position of the ":" that ends an implicit key: a ":" followed by a
\* space or by the end of the line; 0 when the line has none
KeyColon(line) ==
  LET hits == {i \in 1..Len(line) :
                 line[i] = ":" /\ (i = Len(line) \/ line[i + 1] = " ")}
  IN IF hits = {} THEN 0 ELSE CHOOSE i \in hits : \A j \in hits : i <= j

\* a plain scalar resolved by the core schema: a boolean, null, an integer
\* or a string
ResolvePlain(t) ==
  IF t = cTrue \/ t = cFalse THEN Bool(t)
  ELSE IF t = <<"n", "u", "l", "l">> \/ t = <<"~">> THEN Null
  ELSE IF Len(t) > 0 /\ (\A i \in 1..Len(t) : t[i] \in Digits)
          /\ (Len(t) = 1 \/ t[1] # "0") THEN Num(t)
  ELSE Str(t)

NoScalar == [ok |-> FALSE, v |-> Null]
Scalar(v) == [ok |-> TRUE, v |-> v]

\* a double-quoted scalar (no escapes) that closes at position close of its
\* tail; what follows the closing quote is blank or a comment
QuotedAt(lead, close) ==
  IF close # 0
     /\ (Trim(SubSeq(lead, close + 2, Len(lead))) = <<>>
         \/ StartsWith(SubSeq(lead, close + 2, Len(lead)), <<" ", "#">>))
  THEN Scalar(Str(SubSeq(lead, 2, close)))
  ELSE NoScalar

\* a plain scalar, its comment removed: empty is null, and a "k: v" inside a
\* value is an error (nested mappings are not allowed in compact mappings)
PlainScalar(body) ==
  IF body = <<>> THEN Scalar(Null)
  ELSE IF KeyColon(body) # 0 THEN NoScalar
  ELSE Scalar(ResolvePlain(body))

\* the text before a " #" comment
Uncommented(text, cut) == IF cut = 0 THEN text ELSE SubSeq(text, 1, cut - 1)

ScalarFrom(text, lead) ==
  IF Len(lead) > 0 /\ lead[1] = "\""
  THEN QuotedAt(lead, IndexOf(Tail(lead), <<"\"">>))
  ELSE PlainScalar(Trim(Uncommented(text, IndexOf(text, <<" ", "#">>))))

\* the value of a "key:" line, from the text after the colon
ScalarOf(text) == ScalarFrom(text, TrimLeft(text))

Line(kind, k, v) == [kind |-> kind, k |-> k, v |-> v]

EntryOf(key, sc) ==
  IF key = <<>> \/ ~sc.ok THEN Line("bad", <<>>, Null) ELSE Line("entry", key, sc.v)

\* one line of a document: blank, comment, entry, scalar or bad (t is the
\* line without its indentation, c the position of the key's colon); an
\* indented line belongs to a nested structure, which the flat format has not
ClassifyLine(line, t, c) ==
  IF t = <<>> THEN Line("blank", <<>>, Null)
  ELSE IF t[1] = "#" THEN Line("comment", <<>>, Null)
  ELSE IF line[1] = " " THEN Line("bad", <<>>, Null)
  ELSE IF c = 0 THEN Line("scalar", <<>>, Null)
  ELSE EntryOf(TrimRight(SubSeq(line, 1, c - 1)), ScalarOf(SubSeq(line, c + 1, Len(line))))

LineOf(line) == ClassifyLine(line, TrimLeft(line), KeyColon(line))

RECURSIVE SelectKind(_, _)
SelectKind(ls, kind) ==
  IF Len(ls) = 0 THEN <<>>
  ELSE (IF ls[1].kind = kind THEN <<ls[1]>> ELSE <<>>) \o SelectKind(Tail(ls), kind)

\* the document of classified lines ls, es its entries, nScalar the number
\* of its scalar lines: a mapping with unique keys, one scalar, or nothing
Document(ls, es, nScalar) ==
  IF \E i \in 1..Len(ls) : ls[i].kind = "bad" THEN PErr
  ELSE IF Len(es) > 0 /\ nScalar > 0 THEN PErr
  ELSE IF \E i, j \in 1..Len(es) : i < j /\ es[i].k = es[j].k THEN PErr
  ELSE IF Len(es) > 0 THEN PMap([i \in 1..Len(es) |-> [k |-> es[i].k, v |-> es[i].v]])
  ELSE IF nScalar > 0 THEN PScalar
  ELSE PNull

DocumentOf(ls) == Document(ls, SelectKind(ls, "entry"), Len(SelectKind(ls, "scalar")))

Classified(raws) == [i \in 1..Len(raws) |-> LineOf(raws[i])]

parse(text) == DocumentOf(Classified(Split(text, <<NL>>)))

(***************************************************************************)
(* The file system, as far as one store sees it: the backing file exists   *)
(* or not, has a content, and can be read or not (EACCES). Its directory   *)
(* can be written.                                                         *)
(***************************************************************************)

NoFile == [exists |-> FALSE, text |-> <<>>, readable |-> TRUE]
File(text) == [exists |-> TRUE, text |-> text, readable |-> TRUE]
Unreadable(text) == [exists |-> TRUE, text |-> text, readable |-> FALSE]

\* writeFileSync(path, text): creates the file or replaces its content
writeFileSync(d, text) ==
  IF d.exists THEN [d EXCEPT !.text = text] ELSE File(text)

(***************************************************************************)
(* class Properties. An object is a record of its fields (template, raw,   *)
(* values), the file it works on (disk), whether the running call has      *)
(* thrown (threw), and the phases its constructor went through (phases).   *)
(* values is null, a primitive scalar or a map, as parse returns them.     *)
(***************************************************************************)

\* Object.keys(values).includes(key), values not null
HasKey(values, key) ==
  /\ values.kind = "map"
  /\ \E i \in 1..Len(values.entries) : values.entries[i].k = key

\* values[key] on a map (undefined when the key is absent)
Lookup(values, key) ==
  IF HasKey(values, key)
  THEN values.entries[CHOOSE i \in 1..Len(values.entries) : values.entries[i].k = key].v
  ELSE Undefined

\* getValue(key)
getValue(s, key) == Lookup(s.values, key)

\* this.values[key] = value on a map
Assign(values, key, value) ==
  IF HasKey(values, key)
  THEN PMap([i \in 1..Len(values.entries) |->
               IF values.entries[i].k = key
               THEN [k |-> key, v |-> value] ELSE values.entries[i]])
  ELSE PMap(Append(values.entries, [k |-> key, v |-> value]))

\* what read() gives: the object, the value returned, whether it threw
Parsed(s, p) == [st |-> s, ret |-> p, threw |-> p.kind = "error"]

\* readFileSync, this.raw = properties, return parse(properties)
ReadFile(s) ==
  IF ~s.disk.readable
  THEN [st |-> s, ret |-> PNull, threw |-> TRUE]
  ELSE Parsed([s EXCEPT !.raw = s.disk.text], parse(s.disk.text))

\* a read() without the existsSync branch that creates the file
readNoCreate(s) == ReadFile(s)

\* read(): the file is created from the template when absent, then read
read(s) ==
  ReadFile([s EXCEPT !.disk = IF @.exists THEN @ ELSE writeFileSync(@, s.template)])

\* this.values = this.read() of write()
Written(r) ==
  IF r.threw THEN [r.st EXCEPT !.threw = TRUE] ELSE [r.st EXCEPT !.values = r.ret]

\* write(): the raw text goes to the file and values is read back
write(s) == Written(read([s EXCEPT !.disk = writeFileSync(s.disk, s.raw)]))

\* every line that starts with "key:" becomes "key: value"
ReplaceIn(ls, key, value) ==
  [i \in 1..Len(ls) |->
     IF StartsWith(ls[i], key \o <<":">>)
     THEN key \o <<":", " ">> \o ToStr(value)
     ELSE ls[i]]

\* raw.replaceAll(new RegExp(`^${key}:.*$`, "gm"), `${key}: ${value}`)
\* (no key of the model holds a regex metacharacter, no value a "$")
ReplaceKeyLines(raw, key, value) == JoinLines(ReplaceIn(Split(raw, <<NL>>), key, value))

\* setValue past its test: the key is in values
SetPresent(s, key, value) ==
  write([s EXCEPT !.values = Assign(s.values, key, value),
                  !.raw = ReplaceKeyLines(s.raw, key, value)])

\* addValue past its test: the key is not in values; the assignment throws
\* a TypeError when values is a primitive
AddAbsent(s, key, value, message) ==
  IF s.values.kind # "map"
  THEN [s EXCEPT !.threw = TRUE]
  ELSE write([s EXCEPT
         !.values = Assign(s.values, key, value),
         !.raw = s.raw \o <<NL>> \o key \o <<":", " ">> \o ToStr(value) \o <<NL>>
                   \o (IF message # <<>>
                       THEN <<"#", " ">> \o message \o <<NL>> ELSE <<>>)])

\* setValue(key, value); Object.keys(null) throws
setValue(s, key, value) ==
  IF s.values.kind = "null" THEN [s EXCEPT !.threw = TRUE]
  ELSE IF ~HasKey(s.values, key) THEN AddAbsent(s, key, value, <<>>)
  ELSE SetPresent(s, key, value)

\* addValue(key, value, message)
addValue(s, key, value, message) ==
  IF s.values.kind = "null" THEN [s EXCEPT !.threw = TRUE]
  ELSE IF HasKey(s.values, key) THEN SetPresent(s, key, value)
  ELSE AddAbsent(s, key, value, message)

\* fetch.split("\n")[1]?.startsWith("#") ? fetch.split("\n")[1] : ""
CommentLine(ls) ==
  IF Len(ls) >= 2 /\ StartsWith(ls[2], <<"#">>) THEN ls[2] ELSE <<>>

\* fetch ? ... : ""
CommentAfter(fetch) == IF fetch # <<>> THEN CommentLine(Split(fetch, <<NL>>)) ELSE <<>>

\* fetch = this.template.split(`\n${key}:`)[1]
CommentIn(parts) == IF Len(parts) >= 2 THEN CommentAfter(parts[2]) ELSE <<>>

\* the comment the constructor looks up for a template key
CommentOf(template, key) == CommentIn(Split(template, <<NL>> \o key \o <<":">>))

\* a constructor without the loop over the template's keys
ReconcileNone(s, defs, i) == s

\* for (const key in defaultProperties)
\*   if (!Object.keys(this.values).includes(key)) this.addValue(key, default, comment)
RECURSIVE Reconcile(_, _, _)
Reconcile(s, defs, i) ==
  IF i > Len(defs) \/ s.threw THEN s
  ELSE IF HasKey(s.values, defs[i].k) THEN Reconcile(s, defs, i + 1)
  ELSE Reconcile(addValue(s, defs[i].k, defs[i].v, CommentOf(s.template, defs[i].k)),
                 defs, i + 1)

\* a regeneration that leaves the file it found in place
rmSyncKeeps(s) == s

\* rmSync(path)
rmSync(s) ==
  IF s.disk.exists THEN [s EXCEPT !.disk = NoFile] ELSE [s EXCEPT !.threw = TRUE]

\* try { this.values = this.read() } catch (e) { this.values = null }
TryRead(r) == [r.st EXCEPT !.values = IF r.threw THEN PNull ELSE r.ret]

\* this.values = this.read() of the regeneration, not in a try
Reread(s) == IF s.threw THEN s ELSE Written(read([s EXCEPT !.phases = @ \o <<"Loading">>]))

\* if (this.values === null) { rmSync(this.path); this.values = this.read() }
Regenerate(s) ==
  IF s.values.kind # "null" THEN s
  ELSE Reread(rmSync([s EXCEPT !.phases = @ \o <<"Repairing">>]))

AddMissing(s, defaultProperties) ==
  IF defaultProperties.kind = "error" THEN [s EXCEPT !.threw = TRUE]
  ELSE Reconcile(s, defaultProperties.entries, 1)

\* defaultProperties = parse(this.template) and the loop over its keys
CheckMissing(s) == IF s.threw THEN s ELSE AddMissing(s, parse(s.template))

Constructed(s) == [s EXCEPT !.phases = @ \o <<IF s.threw THEN "Raised" ELSE "Ready">>]

NewObject(d, template) ==
  [template |-> template, disk |-> d, raw |-> <<>>, values |-> PNull,
   threw |-> FALSE, phases |-> <<"Loading">>]

\* new Properties(plugin, path, template) on the file d
Properties(d, template) ==
  Constructed(CheckMissing(Regenerate(TryRead(read(NewObject(d, template))))))

(***************************************************************************)
(* class Storage. JavaScript values are named by their literal ("true",    *)
(* "7", "NaN", "null", "undefined"); an object is a function from its keys *)
(* to values. The text JSON.stringify writes for an object is modelled by  *)
(* its members, each the text of a value: a key whose value is undefined   *)
(* is left out and NaN is written null. A file or a row that is no JSON    *)
(* holds BadText.                                                          *)
(***************************************************************************)

BadText == "{bad"

\* the object with no key
EmptyObject == [k \in {} |-> "null"]

\* a merge in which the left operand wins: { ...b, ...a }
SpreadDefaultsWin(a, b) ==
  [k \in DOMAIN a \cup DOMAIN b |-> IF k \in DOMAIN a THEN a[k] ELSE b[k]]

\* { ...a, ...b }
Spread(a, b) == [k \in DOMAIN a \cup DOMAIN b |-> IF k \in DOMAIN b THEN b[k] ELSE a[k]]

\* an assignment that leaves the object with the one key
PutAlone(o, key, value) == [k \in {key} |-> value]

\* object[key] = value
Put(o, key, value) == [k \in DOMAIN o \cup {key} |-> IF k = key THEN value ELSE o[k]]

\* JSON.stringify of a value that has a JSON text
JsonText(v) == IF v = "NaN" THEN "null" ELSE v

\* JSON.stringify(object, null, 2)
JSONstringify(o) ==
  [k \in {x \in DOMAIN o : o[x] # "undefined"} |-> JsonText(o[k])]

\* JSON.parse of the members of an object text, or of the rows of the table
JSONparse(members) == [k \in DOMAIN members |-> members[k]]

\* the files of the data directories: a JSON file (kind "object", or
\* "garbage" when it does not deserialize) or a database (kind "db", its
\* members the rows of key_value)
Absent == [exists |-> FALSE, kind |-> "object", members |-> EmptyObject]
JsonFile(o) == [exists |-> TRUE, kind |-> "object", members |-> o]
GarbageFile == [exists |-> TRUE, kind |-> "garbage", members |-> EmptyObject]
DbFile(rows) == [exists |-> TRUE, kind |-> "db", members |-> rows]

\* an optional string argument
NoName == [given |-> FALSE, name |-> ""]
Name(n) == [given |-> TRUE, name |-> n]

NoPath == [ok |-> FALSE, dir |-> "", file |-> <<"", "">>]
PathIn(dir, file) == [ok |-> TRUE, dir |-> dir, file |-> file]

\* a resolvePath without the check of the world name
resolvePathAnyWorld(type, path, world) ==
  IF type = "World" THEN PathIn("worlds/" \o world.name \o "/plugindata", path)
  ELSE IF type = "Player" THEN PathIn("playerdata", path)
  ELSE IF type = "Server" THEN PathIn("plugindata", path)
  ELSE NoPath

\* resolvePath(type, path, world): throws (ok FALSE) on World without a world
\* name and on a type that is none of the three
resolvePath(type, path, world) ==
  IF type = "World"
  THEN IF ~world.given \/ world.name = "" THEN NoPath
       ELSE PathIn("worlds/" \o world.name \o "/plugindata", path)
  ELSE IF type = "Player" THEN PathIn("playerdata", path)
  ELSE IF type = "Server" THEN PathIn("plugindata", path)
  ELSE NoPath

\* extname(this.path): a file name is its base and its extension
extname(path) == path.file[2]

\* the type chosen from the extension: "none" when the constructor throws
TypeOf(extension) ==
  IF extension = ".json" THEN "json"
  ELSE IF extension = ".sqlite" THEN "sqlite"
  ELSE "none"

\* A Storage object in a call: the heap of objects and the files it works
\* on, its fields (path, type, values: a reference into the heap), the heap
\* address a new object of this store gets (own), whether the constructor
\* threw, and whether its load merged the persisted data (loaded).
Key(path) == [dir |-> path.dir, file |-> path.file]

\* the files that exist, by path; a path that is not there is Absent
FileAt(files, key) == IF key \in DOMAIN files THEN files[key] ELSE Absent

FileOf(s) == FileAt(s.files, Key(s.path))

\* the file of the object replaced by file
WriteFile(s, file) ==
  [s EXCEPT !.files = [k \in DOMAIN @ \cup {Key(s.path)} |->
                         IF k = Key(s.path) THEN file ELSE @[k]]]

\* writeJson(): the whole of values replaces the file
writeJson(s) ==
  WriteFile(s, JsonFile(JSONstringify(s.heap[s.values])))

\* this.values = { ...this.values, ...data }: a new object
Merged(s, data) ==
  [s EXCEPT !.heap[s.own] = Spread(s.heap[s.values], data),
            !.values = s.own,
            !.loaded = TRUE]

\* a readJson whose catch rewrites the file from values
readJsonRewrites(s) ==
  IF FileOf(s).kind # "object" THEN writeJson(s)
  ELSE Merged(s, JSONparse(FileOf(s).members))

\* readJson(): a file that does not deserialize leaves values as it is
readJson(s) ==
  IF FileOf(s).kind # "object" THEN s
  ELSE Merged(s, JSONparse(FileOf(s).members))

\* a writeSqlite without the try/catch: the error of the upsert leaves the call
writeSqliteNoCatch(s, key, value, failed) ==
  IF failed \/ value = "undefined" THEN [s EXCEPT !.threw = TRUE]
  ELSE WriteFile(s, DbFile(Put(FileOf(s).members, key, JsonText(value))))

\* writeSqlite(key, value): the upsert of one row; an upsert that throws
\* (failed, or a value with no JSON text bound to the NOT NULL column) is
\* caught and leaves the table as it is
writeSqlite(s, key, value, failed) ==
  IF failed \/ value = "undefined" THEN [s EXCEPT !.errors = @ + 1]
  ELSE WriteFile(s, DbFile(Put(FileOf(s).members, key, JsonText(value))))

\* for (const key in this.values) this.writeSqlite(key, this.values[key]),
\* keys the keys not yet written, failing the keys whose upsert fails
RECURSIVE WriteAll(_, _, _)
WriteAll(s, keys, failing) ==
  IF keys = {} THEN s
  ELSE LET key == CHOOSE k \in keys : TRUE
       IN WriteAll(writeSqlite(s, key, s.heap[s.values][key], key \in failing),
                   keys \ {key}, failing)

\* the rows were read and merged: an empty table gets every key of values
WriteDefaults(s, rows, failing) ==
  IF DOMAIN rows = {} THEN WriteAll(s, DOMAIN s.heap[s.values], failing) ELSE s

\* readSqlite(): a row that does not deserialize ends the load in the catch
readSqliteRows(s, rows, failing) ==
  IF \E k \in DOMAIN rows : rows[k] = BadText THEN s
  ELSE WriteDefaults(Merged(s, JSONparse(rows)), rows, failing)

readSqlite(s, failing) == readSqliteRows(s, FileOf(s).members, failing)

\* new Database(this.path) and CREATE TABLE IF NOT EXISTS key_value
OpenDatabase(s) ==
  IF FileOf(s).exists THEN s
  ELSE WriteFile(s, DbFile(EmptyObject))

\* initialize()
initialize(s, failing) ==
  IF s.type = "json"
  THEN IF ~FileOf(s).exists THEN writeJson(s) ELSE readJson(s)
  ELSE readSqlite(OpenDatabase(s), failing)

\* the constructor past resolvePath: the type from the extension, or a throw
Typed(s, failing) ==
  IF s.type = "none" THEN [s EXCEPT !.threw = TRUE] ELSE initialize(s, failing)

Resolved(s, path, failing) ==
  IF ~path.ok THEN [s EXCEPT !.threw = TRUE]
  ELSE Typed([s EXCEPT !.path = path, !.type = TypeOf(extname(path))], failing)

NewStorage(heap, files, values, own) ==
  [heap |-> heap, files |-> files, path |-> NoPath, type |-> "none",
   values |-> values, own |-> own, threw |-> FALSE, loaded |-> FALSE, errors |-> 0]

\* new Storage(type, path, world, values) and new Storage(type, path, values),
\* values the caller's object of defaults; failing are the keys whose upsert
\* fails during the load
Storage(heap, files, own, type, path, world, values, failing) ==
  Resolved(NewStorage(heap, files, values, own), resolvePath(type, path, world), failing)

\* setValue(key, value) of Storage
storageSetValue(s, key, value, failed) ==
  IF s.type = "json"
  THEN writeJson([s EXCEPT !.heap[s.values] = Put(@, key, value)])
  ELSE writeSqlite([s EXCEPT !.heap[s.values] = Put(@, key, value)], key, value, failed)

\* getValue(key) of Storage
storageGetValue(s, key) ==
  IF key \in DOMAIN s.heap[s.values] THEN s.heap[s.values][key] ELSE "undefined"

(***************************************************************************)
(* The inputs of the model                                                 *)
(***************************************************************************)

kA == <<"a">>
kB == <<"b">>
kC == <<"c">>
PropKeys == {kA, kB, kC}

\* "a: 1\n#c\nb: 2": the shape of the documented example
\* ("debug: false\n#enable logs\nport: 8080")
TemplatePlain == <<"a", ":", " ", "1", NL, "#", "c", NL, "b", ":", " ", "2">>
\* "a: 1\nb: \"2\"\n#c\n": a string default that reads as a number when unquoted
TemplateQuoted ==
  <<"a", ":", " ", "1", NL, "b", ":", " ", "\"", "2", "\"", NL, "#", "c", NL>>
\* "a: b: 1": a template that is no YAML document
TemplateBroken == <<"a", ":", " ", "b", ":", " ", "1">>
Templates == {TemplatePlain, TemplateQuoted, TemplateBroken}

\* what the backing file may hold before the first open
InitTexts ==
  { <<"a", ":", " ", "5">>,                                  \* an older file, no b
    <<"b", ":", " ", "9", NL, "c", ":", " ", "7", NL>>,       \* a key the template lacks
    <<"a", " ", ":", " ", "5", NL, "b", ":", " ", "2">>,      \* hand-edited: "a : 5"
    <<"a", ":", " ", "b", ":", " ", "c">>,                    \* unparsable
    <<>>,                                                    \* empty
    <<"x">> }                                                \* a scalar document

InitDisks ==
  {NoFile} \cup {File(t) : t \in InitTexts} \cup {Unreadable(<<"a", ":", " ", "5">>)}

\* the values set and add are called with
PropValues ==
  { Num(<<"3">>), Str(<<"x">>), Str(<<"3">>), Str(<<"x", ":", " ", "y">>) }

Messages == { <<>>, <<"m">> }

\* the most set/add calls of one behaviour
MaxCalls == 2

(***************************************************************************)
(* The state: the template and the backing file of the configuration, the  *)
(* Properties object the caller holds (state "none" before the first open, *)
(* "Raised" when the last constructor threw), a record of the last call    *)
(* with the state it started from, and the last setValue of a present key  *)
(* that returned (pinned).                                                 *)
(***************************************************************************)

VARIABLES template, disk, props, last, pinned, calls

(***************************************************************************)
(* The state of the data stores: the heap of JavaScript objects (the       *)
(* caller's object of defaults and one object per store for the objects    *)
(* its constructor makes), the files of the data directories, the Storage  *)
(* objects the caller holds in two variables, and a record of the last     *)
(* call.                                                                   *)
(***************************************************************************)

VARIABLES heap, files, stores, lastS, ops

propVars == <<template, disk, props, last, pinned, calls>>

storeVars == <<heap, files, stores, lastS, ops>>

vars == <<template, disk, props, last, pinned, calls, heap, files, stores, lastS, ops>>

NoProps == [state |-> "none", raw |-> <<>>, values |-> PNull, phases |-> <<>>]

NoPin == [set |-> FALSE, key |-> <<>>, value |-> Null]

NoCall ==
  [op |-> "none", key |-> <<>>, value |-> Null, message |-> <<>>, threw |-> FALSE,
   disk |-> NoFile, props |-> NoProps]

\* the object the caller holds, as the methods take it
Self == [template |-> template, disk |-> disk, raw |-> props.raw,
         values |-> props.values, threw |-> FALSE, phases |-> props.phases]

Called(op, key, value, message, s) ==
  [op |-> op, key |-> key, value |-> value, message |-> message, threw |-> s.threw,
   disk |-> disk, props |-> props]

Opened(s) ==
  /\ disk' = s.disk
  /\ props' = [state |-> IF s.threw THEN "Raised" ELSE "Ready", raw |-> s.raw,
               values |-> s.values, phases |-> s.phases]
  /\ last' = Called("open", <<>>, Null, <<>>, s)
  /\ UNCHANGED <<template, pinned, calls>>
  /\ UNCHANGED storeVars

\* new Properties(plugin, path, template): the caller's object is replaced,
\* and there is none when the constructor throws
Open == Opened(Properties(disk, template))

Returned(op, key, value, message, s) ==
  /\ disk' = s.disk
  /\ props' = [props EXCEPT !.raw = s.raw, !.values = s.values]
  /\ last' = Called(op, key, value, message, s)
  /\ pinned' = IF op = "set" /\ ~s.threw /\ HasKey(props.values, key)
               THEN [set |-> TRUE, key |-> key, value |-> value]
               ELSE NoPin
  /\ calls' = calls + 1
  /\ UNCHANGED template
  /\ UNCHANGED storeVars

\* setValue<K extends keyof T>(key: K, value: T[K]): a key the template
\* declares takes the values of the type of its default
WellTyped(key, value) ==
  HasKey(parse(template), key) => Lookup(parse(template), key).t = value.t

\* properties.setValue(key, value)
Set ==
  /\ props.state = "Ready"
  /\ calls < MaxCalls
  /\ \E key \in PropKeys, value \in PropValues :
       /\ WellTyped(key, value)
       /\ Returned("set", key, value, <<>>, setValue(Self, key, value))

\* properties.addValue(key, value, message)
Add ==
  /\ props.state = "Ready"
  /\ calls < MaxCalls
  /\ \E key \in PropKeys, value \in PropValues, message \in Messages :
       /\ WellTyped(key, value)
       /\ Returned("add", key, value, message, addValue(Self, key, value, message))

(***************************************************************************)
(* The data stores                                                         *)
(***************************************************************************)

Slots == {1, 2}
Own(i) == IF i = 1 THEN "own1" ELSE "own2"

StorageTypes == {"Player", "World", "Server", "Other"}
FileNames == {<<"s", ".json">>, <<"s", ".sqlite">>, <<"s", ".txt">>}
Worlds == {NoName, Name(""), Name("w")}
StoreKeys == {"example", "other"}
\* setValue<K extends keyof T>(key: K, value: T[K]): example is a boolean,
\* other a number
StoreValues(key) == IF key = "example" THEN {"true", "false"} ELSE {"7", "NaN"}

\* EXAMPLE_STORAGE_TEMPLATE, the defaults the plugin passes
ExampleDefaults == [k \in {"example"} |-> "false"]

\* what the player data directory may hold before the first open
InitJson ==
  { Absent, GarbageFile,
    JsonFile([k \in {"example"} |-> "true"]),
    JsonFile([k \in {"other"} |-> "7"]) }

InitDb ==
  { Absent,
    DbFile([k \in {"example"} |-> "true"]),
    DbFile([k \in {"other"} |-> "7"]),
    DbFile([k \in {"example", "other"} |-> IF k = "other" THEN BadText ELSE "true"]) }

\* the most Storage calls (constructions and sets) of one behaviour
MaxOps == 3

NoStore ==
  [state |-> "none", type |-> "none", path |-> NoPath, values |-> "defaults",
   defaultKeys |-> {}, exclusive |-> FALSE]

NoStorageCall ==
  [op |-> "none", slot |-> 0, type |-> "", file |-> <<"", "">>, world |-> NoName,
   key |-> "", value |-> "", failed |-> FALSE, threw |-> FALSE, loaded |-> FALSE,
   peer |-> 0, pre |-> Absent, errors |-> 0]

JsonPath == [dir |-> "playerdata", file |-> <<"s", ".json">>]
DbPath == [dir |-> "playerdata", file |-> <<"s", ".sqlite">>]

\* the files from what the two files of the player data directory hold
InitialFiles(j, d) ==
  [k \in (IF j.exists THEN {JsonPath} ELSE {}) \cup (IF d.exists THEN {DbPath} ELSE {})
     |-> IF k = JsonPath THEN j ELSE d]

\* the player data directory holds at most one of the two files at first
InitFiles ==
  {InitialFiles(j, Absent) : j \in InitJson} \cup {InitialFiles(Absent, d) : d \in InitDb}

InitialHeap == [defaults |-> ExampleDefaults, own1 |-> EmptyObject, own2 |-> EmptyObject]

NoStores == [i \in Slots |-> NoStore]

\* the object in variable i, as the methods take it
StoreSelf(i) ==
  [heap |-> heap, files |-> files, path |-> stores[i].path, type |-> stores[i].type,
   values |-> stores[i].values, own |-> Own(i), threw |-> FALSE, loaded |-> FALSE,
   errors |-> 0]

\* the stores on the path of s other than i no longer have the path to
\* themselves
Shared(i, s) ==
  [j \in Slots |->
     IF j # i /\ stores[j].state = "Ready" /\ ~s.threw /\ Key(stores[j].path) = Key(s.path)
     THEN [stores[j] EXCEPT !.exclusive = FALSE] ELSE stores[j]]

\* the store that had the path of s to itself, 0 when there is none
Peer(i, s) ==
  LET peers == {j \in Slots \ {i} :
                  /\ stores[j].state = "Ready" /\ stores[j].exclusive
                  /\ ~s.threw /\ Key(stores[j].path) = Key(s.path)}
  IN IF peers = {} THEN 0 ELSE CHOOSE j \in peers : TRUE

StorageOpened(i, type, file, world, s) ==
  /\ heap' = s.heap
  /\ files' = s.files
  /\ stores' = [Shared(i, s) EXCEPT ![i] =
       IF s.threw THEN [NoStore EXCEPT !.state = "Raised"]
       ELSE [state |-> "Ready", type |-> s.type, path |-> s.path, values |-> s.values,
             defaultKeys |-> DOMAIN heap["defaults"], exclusive |-> TRUE]]
  /\ lastS' = [op |-> "open", slot |-> i, type |-> type, file |-> file, world |-> world,
               key |-> "", value |-> "", failed |-> FALSE, threw |-> s.threw,
               loaded |-> s.loaded, peer |-> Peer(i, s),
               pre |-> IF s.threw THEN Absent ELSE FileAt(files, Key(s.path)),
               errors |-> s.errors]
  /\ ops' = ops + 1
  /\ UNCHANGED propVars

\* stores[i] = new Storage(type, file, world, defaults)
OpenStorage ==
  /\ ops < MaxOps
  /\ \E i \in Slots, type \in StorageTypes, file \in FileNames, world \in Worlds,
        failing \in {{}, {"example"}} :
       /\ type # "World" => world = NoName
       /\ failing # {} => file[2] = ".sqlite"
       /\ StorageOpened(i, type, file, world,
                        Storage(heap, files, Own(i), type, file, world, "defaults",
                                failing))

StorageReturned(i, key, value, failed, s) ==
  /\ heap' = s.heap
  /\ files' = s.files
  /\ stores' = Shared(i, s)
  /\ lastS' = [op |-> "set", slot |-> i, type |-> stores[i].type,
               file |-> stores[i].path.file, world |-> NoName,
               key |-> key, value |-> value, failed |-> failed, threw |-> s.threw,
               loaded |-> FALSE, peer |-> 0, pre |-> FileAt(files, Key(s.path)),
               errors |-> s.errors]
  /\ ops' = ops + 1
  /\ UNCHANGED propVars

\* stores[i].setValue(key, value); failed: the upsert throws
SetStorage ==
  /\ ops < MaxOps
  /\ \E i \in Slots, key \in StoreKeys, failed \in BOOLEAN :
     \E value \in StoreValues(key) :
       /\ stores[i].state = "Ready"
       /\ failed => stores[i].type = "sqlite"
       /\ StorageReturned(i, key, value, failed,
                          storageSetValue(StoreSelf(i), key, value, failed))

InitProperties ==
  /\ template \in Templates
  /\ disk \in InitDisks
  /\ props = NoProps
  /\ last = NoCall
  /\ pinned = NoPin
  /\ calls = 0
  /\ heap = InitialHeap
  /\ files = InitialFiles(Absent, Absent)
  /\ stores = NoStores
  /\ lastS = NoStorageCall
  /\ ops = 0

NextProperties == Open \/ Set \/ Add

\* the configuration store alone
SpecProperties == InitProperties /\ [][NextProperties]_vars

InitStorage ==
  /\ heap = InitialHeap
  /\ files \in InitFiles
  /\ stores = NoStores
  /\ lastS = NoStorageCall
  /\ ops = 0
  /\ template = TemplatePlain
  /\ disk = NoFile
  /\ props = NoProps
  /\ last = NoCall
  /\ pinned = NoPin
  /\ calls = 0

NextStorage == OpenStorage \/ SetStorage

\* the data stores alone
SpecStorage == InitStorage /\ [][NextStorage]_vars

(***************************************************************************)
(* The claims about the configuration store (under SpecProperties)         *)
(***************************************************************************)

Ready == props.state = "Ready"

\* the template is a YAML mapping: it has defaults
ValidTemplate == parse(template).kind = "map"

DefaultEntries == parse(template).entries

\* the last call was an open of a file that was there and could be read
OpenedExisting == last.op = "open" /\ last.disk.exists /\ last.disk.readable

\* C1: after a setValue(key, v) of a key in values has returned, getValue(key)
\* is v, and it still is on the object of a later open of the same path with
\* the same template.
C1_SetRoundTrip ==
  (pinned.set /\ Ready) =>
    /\ getValue(props, pinned.key) = pinned.value
    /\ getValue(Properties(disk, template), pinned.key) = pinned.value

\* C2: whenever a construction has completed, every key of the template's
\* defaults is a key of values (and it stays one while the object is used).
C2_TemplateKeysPresent ==
  Ready => \A i \in 1..Len(DefaultEntries) : HasKey(props.values, DefaultEntries[i].k)

\* C2's case: an open completed on a file that lacked the template key b
C2_Witness ==
  /\ OpenedExisting /\ Ready
  /\ parse(last.disk.text).kind = "map"
  /\ ~HasKey(parse(last.disk.text), kB)
  /\ HasKey(props.values, kB)

\* the keys and values the file of the last call held
OldValues == parse(last.disk.text)

\* C3: an open of a parsable file keeps every key of the file with the value
\* it had on disk, adds the template keys that were absent, each with its
\* template default, and adds nothing else.
C3_ReconcileOnlyAdds ==
  (OpenedExisting /\ Ready /\ OldValues.kind = "map") =>
    /\ \A i \in 1..Len(OldValues.entries) :
         Lookup(props.values, OldValues.entries[i].k) = OldValues.entries[i].v
    /\ \A i \in 1..Len(DefaultEntries) :
         ~HasKey(OldValues, DefaultEntries[i].k) =>
           Lookup(props.values, DefaultEntries[i].k) = DefaultEntries[i].v
    /\ \A i \in 1..Len(props.values.entries) :
         \/ HasKey(OldValues, props.values.entries[i].k)
         \/ HasKey(parse(template), props.values.entries[i].k)

\* the constructor of the object went through the regeneration
Repaired == \E i \in 1..Len(props.phases) : props.phases[i] = "Repairing"

\* C4: an open of a file whose content does not parse does not throw; the
\* file is then the template, values are the template's defaults, and an
\* open of that file gives the same again.
C4_RepairUnparsable ==
  (OpenedExisting /\ OldValues.kind = "error" /\ ValidTemplate) =>
    /\ Ready
    /\ disk = File(template)
    /\ props.raw = template
    /\ props.values = parse(template)
    /\ ~Properties(disk, template).threw
    /\ Properties(disk, template).disk = disk
    /\ Properties(disk, template).values = props.values

\* C4's case: an unparsable file was opened and regenerated
C4_Witness ==
  /\ OpenedExisting /\ OldValues.kind = "error"
  /\ Ready /\ Repaired

\* C5: an open that cannot read the existing file throws and leaves the
\* file alone; an existing file is deleted and rewritten from the template
\* only when its content was read and gave no document (it did not parse,
\* or it is empty).
C5_IoFailureSurfaces ==
  /\ (last.op = "open" /\ last.disk.exists /\ ~last.disk.readable) =>
       (props.state = "Raised" /\ disk = last.disk)
  /\ (last.op = "open" /\ last.disk.exists /\ Repaired) =>
       (last.disk.readable /\ OldValues.kind \in {"error", "null"})

\* C6: an open where no file exists gives exactly the template's defaults
\* and writes the template text as it is.
C6_FreshOpen ==
  (last.op = "open" /\ ~last.disk.exists /\ ValidTemplate) =>
    /\ Ready
    /\ props.values = parse(template)
    /\ props.raw = template
    /\ disk = File(template)

\* C6's case: a store was opened where there was no file
C6_Witness ==
  /\ last.op = "open" /\ ~last.disk.exists /\ ValidTemplate
  /\ Ready
  /\ Len(props.values.entries) = 2

\* C7: after an open has completed and after every set or add call, raw is
\* the content of the file and parses to exactly values.
C7_NoDrift ==
  Ready => (disk.exists /\ props.raw = disk.text /\ parse(props.raw) = props.values)

(***************************************************************************)
(* The claims about the data stores (under SpecStorage)                    *)
(***************************************************************************)

ValuesOf(i) == heap[stores[i].values]

\* C8: a store opened on a path where another store was opened before and
\* has since been the only one to set values there (its peer), with the
\* same defaults, has the values of that store.
C8_ReopenSameValues ==
  (lastS.op = "open" /\ ~lastS.threw /\ lastS.peer # 0) =>
    ValuesOf(lastS.slot) = ValuesOf(lastS.peer)

\* C9: the keys of values contain the keys its defaults had at construction,
\* for every store and in every state; and where the load of an open merged
\* the persisted data, each persisted key has its persisted value.
C9_DefaultsFloor ==
  /\ \A i \in Slots :
       stores[i].state = "Ready" => stores[i].defaultKeys \subseteq DOMAIN ValuesOf(i)
  /\ (lastS.op = "open" /\ lastS.loaded) =>
       \A k \in DOMAIN lastS.pre.members :
         /\ k \in DOMAIN ValuesOf(lastS.slot)
         /\ ValuesOf(lastS.slot)[k] = lastS.pre.members[k]

\* C9's case: a persisted value that differs from the default was loaded
C9_Witness ==
  /\ lastS.op = "open" /\ lastS.loaded
  /\ "example" \in DOMAIN lastS.pre.members
  /\ lastS.pre.members["example"] = "true"
  /\ ValuesOf(lastS.slot)["example"] = "true"

\* the arguments of a construction that are a configuration error
BadConfig(c) ==
  \/ c.file[2] \notin {".json", ".sqlite"}
  \/ c.type = "World" /\ (~c.world.given \/ c.world.name = "")
  \/ c.type \notin {"Player", "World", "Server"}

\* C10: a construction with another extension than .json and .sqlite, with
\* World and no world name, or with a type that is none of the three throws:
\* the caller holds no store, and no file and no object is made or changed.
C10_ConfigErrorRaises ==
  [][(lastS'.op = "open" /\ BadConfig(lastS')) =>
       /\ stores'[lastS'.slot].state = "Raised"
       /\ files' = files
       /\ heap' = heap]_vars

\* C10's case: World was given an empty world name and the constructor threw
C10_Witness ==
  /\ lastS.op = "open"
  /\ lastS.type = "World" /\ lastS.world = Name("") /\ lastS.file[2] = ".json"
  /\ stores[lastS.slot].state = "Raised"

\* C11: a construction on a .json file that does not deserialize does not
\* throw; values is the caller's defaults as they were, and the file is left
\* exactly as it was.
C11_JsonGarbageUntouched ==
  [][(lastS'.op = "open" /\ lastS'.pre.kind = "garbage") =>
       /\ stores'[lastS'.slot].state = "Ready"
       /\ heap'[stores'[lastS'.slot].values] = heap["defaults"]
       /\ files' = files]_vars

\* C11's case: a store is Ready on a file that does not deserialize, and the
\* file is still there as it was
C11_Witness ==
  /\ lastS.op = "open" /\ lastS.pre.kind = "garbage"
  /\ stores[lastS.slot].state = "Ready"
  /\ FileAt(files, JsonPath) = GarbageFile

\* the rows of the table of store st in the files f
RowsOf(f, st) == FileAt(f, Key(st.path)).members

\* every key of the values of st has a row that deserializes to its value
Reflected(h, f, st) ==
  \A k \in DOMAIN h[st.values] :
    /\ k \in DOMAIN RowsOf(f, st)
    /\ JSONparse(RowsOf(f, st))[k] = h[st.values][k]

\* C12: with no write failure, the table of a .sqlite store holds a row for
\* every key of values, with its value: after every construction whose load
\* completed (on an empty table and on a table an earlier load filled), and
\* after every setValue on a store whose table held them before.
C12_TableReflectsValues ==
  [][/\ (/\ lastS'.op = "open" /\ ~lastS'.threw /\ lastS'.loaded
          /\ stores'[lastS'.slot].type = "sqlite" /\ lastS'.errors = 0) =>
            Reflected(heap', files', stores'[lastS'.slot])
     /\ (/\ lastS'.op = "set" /\ ~lastS'.failed /\ lastS'.errors = 0
          /\ stores'[lastS'.slot].type = "sqlite"
          /\ Reflected(heap, files, stores[lastS'.slot])) =>
            Reflected(heap', files', stores'[lastS'.slot])]_vars

\* C13: a setValue on a .sqlite store whose upsert fails returns to the
\* caller, reports one error, leaves values[key] at the new value, and leaves
\* every file, the row of the key with it, as it was (no second attempt).
C13_UpsertFailureNonFatal ==
  [][(lastS'.op = "set" /\ lastS'.failed) =>
       /\ ~lastS'.threw
       /\ stores'[lastS'.slot].state = "Ready"
       /\ lastS'.errors = 1
       /\ heap'[stores'[lastS'.slot].values][lastS'.key] = lastS'.value
       /\ files' = files]_vars

\* C13's case: an upsert failed, values has the new value and the table has
\* not
C13_Witness ==
  /\ lastS.op = "set" /\ lastS.failed /\ lastS.errors = 1
  /\ ValuesOf(lastS.slot)[lastS.key] = lastS.value
  /\ lastS.key \in DOMAIN RowsOf(files, stores[lastS.slot])
  /\ RowsOf(files, stores[lastS.slot])[lastS.key] # JsonText(lastS.value)

(***************************************************************************)
(* More claims about the configuration store (under SpecProperties)        *)
(***************************************************************************)

\* the line of the template that follows the "key:" line of key when it is a
\* "#" comment, and no line otherwise
CommentUnder(ls, key) ==
  IF \E i \in 1..(Len(ls) - 1) :
       StartsWith(ls[i], key \o <<":">>) /\ StartsWith(ls[i + 1], <<"#">>)
  THEN ls[1 + CHOOSE i \in 1..(Len(ls) - 1) :
              StartsWith(ls[i], key \o <<":">>) /\ StartsWith(ls[i + 1], <<"#">>)]
  ELSE <<>>

\* what the reconciliation appends for a key: "\nkey: value\n" and the
\* comment line of the template, when there is one
AppendedFor(key, value, comment) ==
  <<NL>> \o key \o <<":", " ">> \o ToStr(value) \o <<NL>>
    \o (IF comment # <<>> THEN comment \o <<NL>> ELSE <<>>)

\* the text of the file with every default the old values lack appended
RECURSIVE WithMissing(_, _, _, _)
WithMissing(text, old, defs, i) ==
  IF i > Len(defs) THEN text
  ELSE IF HasKey(old, defs[i].k) THEN WithMissing(text, old, defs, i + 1)
  ELSE WithMissing(text \o AppendedFor(defs[i].k, defs[i].v,
                                       CommentUnder(Split(template, <<NL>>), defs[i].k)),
                   old, defs, i + 1)

\* C14: after an open of a parsable file, the text is the text of the file
\* followed, for each template key the file lacked, by the line of the key
\* and a copy of the comment line that follows the key in the template (at
\* any place of the template, the first line too), and by no comment line
\* when the template has none there.
C14_CommentCopied ==
  (OpenedExisting /\ Ready /\ OldValues.kind = "map" /\ ValidTemplate) =>
    props.raw = WithMissing(last.disk.text, OldValues, DefaultEntries, 1)

\* the text the first read() of the last open took: the file, or the template
\* it had just written
FirstRead == IF last.disk.exists THEN last.disk.text ELSE template

\* the first load of the last open failed: the file could not be read, or
\* its text gave no document
FirstLoadFailed ==
  ~last.disk.readable \/ parse(FirstRead).kind \in {"error", "null"}

\* how often the constructor went through the regeneration
Repairs == Cardinality({i \in 1..Len(props.phases) : props.phases[i] = "Repairing"})

\* C16: an open goes Loading, Ready or Loading, Repairing, Loading, Ready;
\* it repairs only after a failed load and at most once; it ends Ready, or
\* it throws and the template is one that cannot be loaded; and set and add
\* are called on an object that reached Ready only.
C16_OpenPhases ==
  /\ last.op = "open" =>
       /\ \/ props.phases = <<"Loading", "Ready">>
          \/ props.phases = <<"Loading", "Repairing", "Loading", "Ready">>
          \/ ~ValidTemplate /\ props.phases[Len(props.phases)] = "Raised"
       /\ Repairs <= 1
       /\ Repaired => FirstLoadFailed
  /\ last.op \in {"set", "add"} =>
       last.props.state = "Ready" /\ last.props.phases[Len(last.props.phases)] = "Ready"

\* the comment line addValue writes for a message, none for no message
MessageLine(message) == IF message # <<>> THEN <<"#", " ">> \o message ELSE <<>>

\* C18: an addValue of a key that values lacks, and a setValue of such a key,
\* returns with the text it had before followed by the line "key: value" and,
\* when a message is given, by one comment line; getValue(key) is then the
\* value.
C18_AddAppends ==
  (last.op \in {"set", "add"} /\ ~HasKey(last.props.values, last.key)) =>
    /\ ~last.threw
    /\ props.raw = last.props.raw
                     \o AppendedFor(last.key, last.value, MessageLine(last.message))
    /\ getValue(props, last.key) = last.value

\* every key of old other than key has in new the value it has in old
OthersKept(old, new, key) ==
  \A i \in 1..Len(old.entries) :
    old.entries[i].k # key => Lookup(new, old.entries[i].k) = old.entries[i].v

\* the lines of new are the lines of old, but for the "key:" lines
LinesKept(old, new, key) ==
  /\ Len(new) = Len(old)
  /\ \A i \in 1..Len(old) : ~StartsWith(old[i], key \o <<":">>) => new[i] = old[i]

\* C20: a setValue of a key in values leaves every other key with its value,
\* in values and in the file, leaves every line of the text that is not the
\* "key:" line of the key as it was, and leaves the number of lines.
C20_SetChangesOneKey ==
  (last.op = "set" /\ HasKey(last.props.values, last.key)) =>
    /\ OthersKept(last.props.values, props.values, last.key)
    /\ parse(last.disk.text).kind = "map" =>
         OthersKept(parse(last.disk.text), parse(disk.text), last.key)
    /\ LinesKept(Split(last.props.raw, <<NL>>), Split(props.raw, <<NL>>), last.key)
    /\ LinesKept(Split(last.disk.text, <<NL>>), Split(disk.text, <<NL>>), last.key)

\* the constructor of the object s went through the regeneration
RepairedIn(s) == \E i \in 1..Len(s.phases) : s.phases[i] = "Repairing"

\* C21: after any setValue or addValue call on an object that reached Ready,
\* an open of the same path with the same template does not delete and
\* regenerate the file: the calls leave no file that an open takes for
\* invalid.
C21_NoSelfCorruption ==
  (Ready /\ last.op \in {"set", "add"}) => ~RepairedIn(Properties(disk, template))

(***************************************************************************)
(* More claims about the data stores (under SpecStorage)                   *)
(***************************************************************************)

C17_JsonFileIsValues ==
  (lastS.op = "set" /\ stores[lastS.slot].type = "json") =>
    /\ FileAt(files, Key(stores[lastS.slot].path)).exists
    /\ FileAt(files, Key(stores[lastS.slot].path)).kind = "object"
    /\ JSONparse(RowsOf(files, stores[lastS.slot])) = ValuesOf(lastS.slot)

\* getValue(key) of the store st with the objects h
GetOf(h, st, key) == storageGetValue([heap |-> h, values |-> st.values], key)

\* C19: a setValue on a store changes neither the caller's object of
\* defaults nor what getValue returns on a store of another path.
C19_StoresIsolated ==
  [][lastS'.op = "set" =>
       /\ heap'["defaults"] = heap["defaults"]
       /\ \A j \in Slots \ {lastS'.slot} :
            (/\ stores[j].state = "Ready"
             /\ Key(stores[j].path) # Key(stores[lastS'.slot].path)) =>
               \A k \in StoreKeys : GetOf(heap', stores'[j], k) = GetOf(heap, stores[j], k)]_vars

====
